---- MODULE Spec2Model ----
(***************************************************************************)
(* A model of the cgc-rs collector core: the collector State with its STW  *)
(* flag and byte counters (src/src/state.rs), the allocation frame         *)
(* (src/src/frame.rs) and the object header and handles                    *)
(* (src/src/gc_box.rs).                                                    *)
(*                                                                         *)
(* Threads call the operations of the code; an operation that works on     *)
(* shared state in more than one step (stw, ctw, allocate_gc_cell) is      *)
(* split at those steps.  A panic unwinds the calling thread and leaves    *)
(* the shared State as it is.  Where the code's behaviour is undefined (a  *)
(* write through a null pointer, the drop of an uninitialised value) the   *)
(* step has every outcome a build of the code can give.                    *)
(***************************************************************************)
EXTENDS Integers, FiniteSets, Sequences, TLC

(***************************************************************************)
(* Bounds of the model.                                                    *)
(***************************************************************************)
NThreads == 2        \* threads calling into the collector
MaxObjects == 2      \* blocks the system allocator can hand out
NTypes == 3          \* managed types T: (), u32, a 4-byte type with Drop, ...
MaxValue == 1        \* data values are 0..MaxValue
MaxConfig == 1       \* configurations 0..MaxConfig of GCConfig
MaxScans == 2        \* calls of minor_heap_gen_gc an object lives through

(***************************************************************************)
(* Layout.  GCHeader is repr(C, align(8)): liveness (8 bytes), marked,     *)
(* pined, generation (1 byte each, padded to 8) and type_id (a TypeId of   *)
(* 16 bytes, aligned to 8).                                                *)
(***************************************************************************)
HeaderSize == 32
Align == 8

Threads == 1..NThreads
Frames == Threads
Types == 1..NTypes
Values == 0..MaxValue
NullPtr == 0

\* The managed types: 1 is (), 2 is u32, 3 a 4-byte type that implements
\* Drop, 4 an 8-byte plain type, 5 an 8-byte type that owns memory (Box).
\* size_of::<T>() of the managed type ty:
DataSize(ty) == 4 * (ty \div 2)

\* Whether T has drop glue.
HasDropGlue(ty) == ty > 1 /\ ty % 2 = 1

RoundUp(n, a) == ((n + a - 1) \div a) * a

\* Layout::new::<GCCellLayout<T>>().size(): header, then data, padded to
\* the alignment of the block.
LayoutSize(ty) == RoundUp(HeaderSize + DataSize(ty), Align)

\* The blocks the allocator can return: block i of SlotSize bytes.
SlotSize == LayoutSize(NTypes)
Addrs == {i * SlotSize : i \in 1..MaxObjects}

\* The generation tag is an AtomicU8; the three tags the collector uses.
Generations == {"Minor", "Major", "Immortal"}

\* The values the generation byte of a block can hold: one of the tags, or
\* a byte that is none of them.
GenerationBytes == Generations \cup {"Other"}

\* The values the byte of an AtomicBool can hold: 0, 1, or another byte.
BoolBytes == {"false", "true", "other"}

\* What a block returned by alloc() may hold before it is initialised.
Garbage == [liveness : 0..1, marked : BOOLEAN, pined : BoolBytes,
            generation : GenerationBytes, type_id : Types, data : Values]

\* A block whose bytes are all zero (taking Minor for the tag 0).
ZeroBlock == [liveness |-> 0, marked |-> FALSE, pined |-> "false",
              generation |-> "Minor", type_id |-> 1, data |-> 0]

\* GCConfig, restricted to the fields the properties below read: configuration
\* k allows one header and k words in the minor heap and promotes after
\* k + 1 scans.
Configs == {[minor_heap_size_limit |-> HeaderSize + Align * k,
             major_heap_liveness |-> k + 1] : k \in 0..MaxConfig}

VARIABLES
    config,               \* State.config
    stw,                  \* State.stw
    minor_heap_size,      \* State.minor_heap_size
    minor_heap_gen,       \* State.minor_heap_gen
    minor_heap_dead,      \* State.minor_heap_dead
    major_heap_gen,       \* State.major_heap_gen
    major_heap_marked,    \* State.major_heap_marked
    major_heap_rescan_list, \* State.major_heap_rescan_list
    imm_gen,              \* State.imm_gen
    heap,                 \* allocated blocks: header address -> header, data
    registed_gc_objects,  \* GCFrame.registed_gc_objects, per frame
    pc,                   \* per thread: where it is in its current call
    local,                \* per thread: the locals of its current call
    crashed,              \* the process has been killed
    major_stage,          \* the GCStage the major cycle is in
    initial_scan,         \* the collector is in its initial root scan
    last,                 \* the most recent completed step and its result
    hist                  \* history: what has happened to each object

vars == <<config, stw, minor_heap_size, minor_heap_gen, minor_heap_dead,
          major_heap_gen, major_heap_marked, major_heap_rescan_list, imm_gen,
          heap, registed_gc_objects, pc, local, crashed, major_stage,
          initial_scan, last, hist>>

major == <<major_stage, initial_scan>>

sets == <<minor_heap_gen, minor_heap_dead, major_heap_gen,
          major_heap_marked, major_heap_rescan_list, imm_gen>>

(***************************************************************************)
(* Handles.                                                                *)
(***************************************************************************)
\* The GCCell that allocate_gc_cell builds for the block at header_ptr:
\* data = header_ptr.add(1).
GCCell(header_ptr) == [header |-> header_ptr, data |-> header_ptr + HeaderSize]

\* The handles allocate_gc_cell has returned.
Cells == {GCCell(a) : a \in hist.returned}

CellEqByValue(a, b) == heap[a.header].data = heap[b.header].data

\* impl PartialEq for GCCell: self.header == other.header
CellEq(a, b) == a.header = b.header

(***************************************************************************)
(* Atomics and sets.                                                       *)
(***************************************************************************)
CompareExchangeBlind(cur, expected, new) == [ok |-> TRUE, val |-> new]

CompareExchangeSpurious(cur, expected, new) ==
    [ok |-> TRUE, val |-> IF cur = expected THEN new ELSE cur]

\* AtomicBool::compare_exchange(expected, new) on a flag holding cur.
CompareExchange(cur, expected, new) ==
    [ok |-> cur = expected, val |-> IF cur = expected THEN new ELSE cur]

FetchAddStale(cur, n) == cur

\* AtomicUsize::fetch_add(n): the value the counter holds afterwards.
FetchAdd(cur, n) == cur + n

SetInsertAlways(s, x) == [ok |-> TRUE, set |-> s \cup {x}]

SetInsertLost(s, x) == [ok |-> x \notin s, set |-> {x}]

\* DashSet::insert: true iff the value was not in the set.
SetInsert(s, x) == [ok |-> x \notin s, set |-> s \cup {x}]

\* GCHeader::init::<T>() on a block holding g: type_id, liveness and marked
\* are stored; pined and generation are left as they were.
HeaderInit(g, ty) ==
    [liveness |-> 1, marked |-> FALSE, pined |-> g.pined,
     generation |-> g.generation, type_id |-> ty]

(***************************************************************************)
(* The record of the most recent step.                                     *)
(***************************************************************************)
Step(op, outcome, flag, pre, size, h, h2) ==
    [op |-> op, outcome |-> outcome, flag |-> flag, pre |-> pre,
     size |-> size, h |-> h, h2 |-> h2, cb |-> "none", prev_cb |-> "none",
     began |-> FALSE]

NoLocal == [ty |-> 0, size |-> 0, h |-> NullPtr, h2 |-> NullPtr,
            won |-> FALSE, began |-> FALSE]

\* A State as it is when the collector starts: the flag false, the counter
\* 0, the sets empty, no frame owning anything.  State::new(), the
\* constructor of src/, is todo!() and GCFrame has none; a State and its
\* frames are put together field by field.
Init ==
    /\ config \in Configs
    /\ stw = FALSE
    /\ minor_heap_size = 0
    /\ minor_heap_gen = {}
    /\ minor_heap_dead = {}
    /\ major_heap_gen = {}
    /\ major_heap_marked = {}
    /\ major_heap_rescan_list = {}
    /\ imm_gen = {}
    /\ heap = <<>>
    /\ registed_gc_objects = [f \in Frames |-> {}]
    /\ pc = [t \in Threads |-> "idle"]
    /\ local = [t \in Threads |-> NoLocal]
    /\ crashed = FALSE
    /\ major_stage = "Ready"
    /\ initial_scan = FALSE
    /\ last = Step("start", "ok", FALSE, 0, 0, NullPtr, NullPtr)
    /\ hist = [survived |-> <<>>, queued |-> <<>>, lost |-> {},
               mutated |-> {}, retraced |-> {}, callback |-> "none",
               holding |-> 0, overlapped |-> FALSE, owner |-> <<>>,
               unmarked |-> {}, returned |-> {}]

\* The same State with the first of the configurations.  No operation of
\* src/ reads config, so the runs from one configuration are the runs from
\* any other.
InitOneConfig == Init /\ config.major_heap_liveness = 1

\* A per-object counter, extended to the new object a.
Born(f, a) == [x \in DOMAIN f \cup {a} |-> IF x = a THEN 0 ELSE f[x]]

\* The frame through which each object was allocated, extended to a.
Owned(f, a, t) == [x \in DOMAIN f \cup {a} |-> IF x = a THEN t ELSE f[x]]

\* alloc(layout): the system allocator hands out any block that is not in
\* use, or null.
FreeBlocks == Addrs \ DOMAIN heap

\* `*data = value` assigns to a place in the block, so for a T with drop
\* glue it first drops what the uninitialised block holds.  That read is
\* undefined: the destructor may pass, it may panic (the value is stored
\* in either case), or the process may be killed.
StoreOutcomes(ty) ==
    IF HasDropGlue(ty) THEN {"ok", "panic", "killed"} ELSE {"ok"}

\* The free block at the lowest address.
FirstFree == CHOOSE a \in FreeBlocks : \A b \in FreeBlocks : a <= b

Idle(t) == ~crashed /\ pc[t] = "idle"

(***************************************************************************)
(* State::new(): todo!().  The call panics and returns no State.           *)
(***************************************************************************)
NewCall(t) ==
    /\ Idle(t)
    /\ last' = Step("new", "panic", FALSE, 0, 0, NullPtr, NullPtr)
    /\ UNCHANGED <<config, stw, minor_heap_size, sets, heap,
                   registed_gc_objects, pc, local, crashed, major, hist>>

(***************************************************************************)
(* State::stw and State::ctw.  Each calls its Monitoring callback first,   *)
(* which is code of the host and takes its time, and then does its         *)
(* compare_exchange(..).expect(..): two steps, with the steps of other     *)
(* threads between them.                                                   *)
(***************************************************************************)
\* The history after a whole stw(): self.monitoring.start_stw() has been
\* called; when the exchange succeeded, one more caller holds the window.
StwHist(h, ok) ==
    [h EXCEPT !.callback = "start_stw",
              !.holding = IF ok THEN @ + 1 ELSE @]

\* The history after a whole ctw(): self.monitoring.end_stw() has been
\* called; when the exchange succeeded, the window is closed.
CtwHist(h, ok) ==
    [h EXCEPT !.callback = "end_stw", !.holding = IF ok THEN 0 ELSE @]

\* The record of a step that called a callback: the callback it invoked
\* and the one invoked most recently before.
StwStep(s) == [s EXCEPT !.cb = "start_stw", !.prev_cb = hist.callback]

CtwStep(s) == [s EXCEPT !.cb = "end_stw", !.prev_cb = hist.callback]

\* stw(): self.monitoring.start_stw().
StwBegin(t) ==
    /\ Idle(t)
    /\ pc' = [pc EXCEPT ![t] = "stw"]
    /\ local' = [local EXCEPT ![t] = [NoLocal EXCEPT !.began = stw]]
    /\ hist' = [hist EXCEPT !.callback = "start_stw"]
    /\ last' = StwStep(Step("start_stw", "ok", stw, 0, 0, NullPtr, NullPtr))
    /\ UNCHANGED <<config, stw, minor_heap_size, sets, heap,
                   registed_gc_objects, crashed, major>>

\* stw(): self.stw.compare_exchange(false, true, ..).expect(..).
StwCall(t) ==
    /\ ~crashed
    /\ pc[t] = "stw"
    /\ LET r == CompareExchange(stw, FALSE, TRUE) IN
        /\ stw' = r.val
        /\ hist' = [hist EXCEPT !.holding = IF r.ok THEN @ + 1 ELSE @]
        /\ last' = [Step("stw", IF r.ok THEN "ok" ELSE "panic", stw, 0, 0,
                         NullPtr, NullPtr)
                       EXCEPT !.began = local[t].began]
    /\ pc' = [pc EXCEPT ![t] = "idle"]
    /\ local' = [local EXCEPT ![t] = NoLocal]
    /\ UNCHANGED <<config, minor_heap_size, sets, heap, registed_gc_objects,
                   crashed, major>>

\* ctw(): self.monitoring.end_stw().
CtwBegin(t) ==
    /\ Idle(t)
    /\ pc' = [pc EXCEPT ![t] = "ctw"]
    /\ local' = [local EXCEPT ![t] = [NoLocal EXCEPT !.began = stw]]
    /\ hist' = [hist EXCEPT !.callback = "end_stw"]
    /\ last' = CtwStep(Step("end_stw", "ok", stw, 0, 0, NullPtr, NullPtr))
    /\ UNCHANGED <<config, stw, minor_heap_size, sets, heap,
                   registed_gc_objects, crashed, major>>

\* ctw(): self.stw.compare_exchange(true, false, ..).expect(..).
CtwCall(t) ==
    /\ ~crashed
    /\ pc[t] = "ctw"
    /\ LET r == CompareExchange(stw, TRUE, FALSE) IN
        /\ stw' = r.val
        /\ hist' = [hist EXCEPT !.holding = IF r.ok THEN 0 ELSE @]
        /\ last' = [Step("ctw", IF r.ok THEN "ok" ELSE "panic", stw, 0, 0,
                         NullPtr, NullPtr)
                       EXCEPT !.began = local[t].began]
    /\ pc' = [pc EXCEPT ![t] = "idle"]
    /\ local' = [local EXCEPT ![t] = NoLocal]
    /\ UNCHANGED <<config, minor_heap_size, sets, heap, registed_gc_objects,
                   crashed, major>>

(***************************************************************************)
(* GCFrame::allocate_gc_cell.                                              *)
(***************************************************************************)
\* layout = Layout::new(); state.minor_heap_size.fetch_add(layout.size()).
\* Thread t allocates through its own frame, frame t.
AllocFetchAdd(t, ty) ==
    /\ Idle(t)
    /\ minor_heap_size' = FetchAdd(minor_heap_size, LayoutSize(ty))
    /\ pc' = [pc EXCEPT ![t] = "allocating"]
    /\ local' = [local EXCEPT ![t] = [NoLocal EXCEPT !.ty = ty,
                                              !.size = LayoutSize(ty)]]
    /\ hist' = [hist EXCEPT !.overlapped =
                  \E u \in Threads : pc[u] = "allocating"]
    /\ last' = Step("fetch_add", "ok", FALSE, minor_heap_size, LayoutSize(ty),
                    NullPtr, NullPtr)
    /\ UNCHANGED <<config, stw, sets, heap, registed_gc_objects, crashed,
                   major>>

\* alloc(layout) returned the block a, holding g: header.init(), then
\* *data = value with outcome o.  When the drop of the old contents
\* passes, the value is stored: insert into the frame's set and return the
\* GCCell, or panic when the insert finds the pointer there.  When the
\* drop panics, the value is stored all the same on the way out (the
\* assignment drops and replaces), and the call unwinds with the block
\* initialised, holding the value, and not registered.  When the drop
\* kills the process, nothing of the process is left to observe.
AllocFinish(t, v, g, a, o) ==
    /\ ~crashed
    /\ pc[t] = "allocating"
    /\ a \in FreeBlocks
    /\ o \in StoreOutcomes(local[t].ty)
    /\ crashed' = (o = "killed")
    /\ IF o = "killed"
       THEN /\ last' = Step("allocate", "killed", FALSE,
                            minor_heap_size - local[t].size, local[t].size,
                            NullPtr, NullPtr)
            /\ UNCHANGED <<heap, registed_gc_objects, pc, local, hist>>
       ELSE LET l == local[t]
                r == SetInsert(registed_gc_objects[t], a)
                outcome == IF o = "ok" /\ r.ok THEN "ok" ELSE "panic"
            IN  /\ heap' = [x \in DOMAIN heap \cup {a} |->
                              IF x = a
                              THEN [header |-> HeaderInit(g, l.ty),
                                    data |-> v]
                              ELSE heap[x]]
                /\ registed_gc_objects' =
                      IF o = "ok"
                      THEN [registed_gc_objects EXCEPT ![t] = r.set]
                      ELSE registed_gc_objects
                /\ hist' = [hist EXCEPT
                              !.survived = Born(hist.survived, a),
                              !.queued = Born(hist.queued, a),
                              !.owner = Owned(hist.owner, a, t),
                              !.returned = IF outcome = "ok"
                                           THEN @ \cup {a} ELSE @]
                /\ last' = Step("allocate", outcome,
                                a \in registed_gc_objects[t],
                                minor_heap_size - l.size, l.size,
                                IF outcome = "ok" THEN a ELSE NullPtr,
                                NullPtr)
                /\ pc' = [pc EXCEPT ![t] = "idle"]
                /\ local' = [local EXCEPT ![t] = NoLocal]
    /\ UNCHANGED <<config, stw, minor_heap_size, sets, major>>

\* alloc(layout) returned null: header.init() writes through the null
\* pointer.  That write is undefined: the process is killed (a fault, or an
\* abort), or the build has dropped the null case and the allocation goes
\* on with a block, as in AllocFinish.
AllocNull(t) ==
    /\ ~crashed
    /\ pc[t] = "allocating"
    /\ crashed' = TRUE
    /\ last' = Step("allocate", "killed", FALSE,
                    minor_heap_size - local[t].size, local[t].size, NullPtr,
                    NullPtr)
    /\ UNCHANGED <<config, stw, minor_heap_size, sets, heap,
                   registed_gc_objects, pc, local, major, hist>>

(***************************************************************************)
(* State::minor_heap_gen_gc: the body is empty.  Every allocated object    *)
(* lives through the call; the history keeps which objects were unmarked   *)
(* when it was made.                                                       *)
(***************************************************************************)
MinorHeapGenGc(t) ==
    /\ Idle(t)
    /\ \A a \in DOMAIN heap : hist.survived[a] < MaxScans
    /\ hist' = [hist EXCEPT
                  !.survived = [a \in DOMAIN heap |-> hist.survived[a] + 1],
                  !.unmarked = {a \in DOMAIN heap : ~heap[a].header.marked}]
    /\ last' = Step("minor_heap_gen_gc", "ok", FALSE, minor_heap_size, 0,
                    NullPtr, NullPtr)
    /\ UNCHANGED <<config, stw, minor_heap_size, sets, heap,
                   registed_gc_objects, pc, local, crashed, major>>

(***************************************************************************)
(* GCCell::eq on two handles.                                              *)
(***************************************************************************)
CompareCells(t, a, b) ==
    /\ Idle(t)
    /\ last' = Step("eq", "ok", CellEq(a, b), 0, 0, a.header, b.header)
    /\ UNCHANGED <<config, stw, minor_heap_size, sets, heap,
                   registed_gc_objects, pc, local, crashed, major, hist>>

(***************************************************************************)
(* GCBox::as_mut, the only place a GCMut could come from: todo!().         *)
(***************************************************************************)
AsMutCall(t, c) ==
    /\ Idle(t)
    /\ last' = Step("as_mut", "panic", FALSE, 0, 0, c.header, NullPtr)
    /\ UNCHANGED <<config, stw, minor_heap_size, sets, heap,
                   registed_gc_objects, pc, local, crashed, major, hist>>

(***************************************************************************)
(* The write guard GCMut {prev_ptr, end_ptr}.  No code of src/ makes one   *)
(* (as_mut is todo!()); a thread holds a guard put together from two       *)
(* handles.  While it holds it, it writes through DerefMut (end_ptr.data)  *)
(* as often as it likes; then the guard is dropped.  Drop for GCMut        *)
(* compares the two handles, does nothing with the result and panics in    *)
(* unimplemented!(); it writes nothing and touches no set of the State.    *)
(***************************************************************************)
HoldGCMut(t, prev_ptr, end_ptr) ==
    /\ Idle(t)
    /\ pc' = [pc EXCEPT ![t] = "guard"]
    /\ local' = [local EXCEPT ![t] = [NoLocal EXCEPT !.h = end_ptr.header,
                                                    !.h2 = prev_ptr.header]]
    /\ last' = Step("hold_gcmut", "ok", FALSE, 0, 0, end_ptr.header,
                    prev_ptr.header)
    /\ UNCHANGED <<config, stw, minor_heap_size, sets, heap,
                   registed_gc_objects, crashed, major, hist>>

WriteData(c, v) == [heap EXCEPT ![c.header].data = v]

\* DerefMut for GCMut: the holder gets &mut T at end_ptr.data and stores v.
DerefMutWrite(t, v) ==
    /\ ~crashed
    /\ pc[t] = "guard"
    /\ heap' = WriteData(GCCell(local[t].h), v)
    /\ hist' = [hist EXCEPT !.mutated =
                  IF major_stage = "ParallelScan"
                  THEN hist.mutated \cup {local[t].h}
                  ELSE hist.mutated]
    /\ last' = Step("deref_mut", "ok", major_stage = "ParallelScan", 0, 0,
                    local[t].h, local[t].h2)
    /\ UNCHANGED <<config, stw, minor_heap_size, sets, registed_gc_objects,
                   pc, local, crashed, major>>

\* Drop for GCMut.
DropGCMut(t) ==
    /\ ~crashed
    /\ pc[t] = "guard"
    /\ pc' = [pc EXCEPT ![t] = "idle"]
    /\ local' = [local EXCEPT ![t] = NoLocal]
    /\ last' = Step("drop_gcmut", "panic", major_stage = "ParallelScan", 0,
                    0, local[t].h, local[t].h2)
    /\ UNCHANGED <<config, stw, minor_heap_size, sets, heap,
                   registed_gc_objects, crashed, major, hist>>

(***************************************************************************)
(* The memory of an object is released.  Nothing in src/ frees a block or  *)
(* takes a pointer out of a frame's set; the sweep of the minor cycle is   *)
(* designed to: the object moves to the minor dead set, its block goes     *)
(* back to the system allocator and the byte counter drops by its size.    *)
(* The frame that allocated it keeps the pointer.                          *)
(***************************************************************************)
Reclaim(a) ==
    /\ ~crashed
    /\ a \in DOMAIN heap
    /\ minor_heap_dead' = minor_heap_dead \cup {a}
    /\ minor_heap_size' =
          minor_heap_size - LayoutSize(heap[a].header.type_id)
    /\ heap' = [x \in DOMAIN heap \ {a} |-> heap[x]]
    /\ last' = Step("reclaim", "ok", FALSE, minor_heap_size,
                    LayoutSize(heap[a].header.type_id), a, NullPtr)
    /\ hist' = [hist EXCEPT !.returned = @ \ {a}]
    /\ UNCHANGED <<config, stw, minor_heap_gen, major_heap_gen,
                   major_heap_marked, major_heap_rescan_list, imm_gen,
                   registed_gc_objects, pc, local, crashed, major>>

(***************************************************************************)
(* The operations of src/, called from several threads: State::new,        *)
(* stw(), ctw(), minor_heap_gen_gc, allocate_gc_cell for every managed     *)
(* type and value on any free block with any prior contents, and the       *)
(* operations on handles and write guards.  The specifications after this  *)
(* one each take a part of these operations and of their inputs.           *)
(***************************************************************************)
Next ==
    \/ \E t \in Threads : NewCall(t)
    \/ \E t \in Threads : StwBegin(t)
    \/ \E t \in Threads : StwCall(t)
    \/ \E t \in Threads : CtwBegin(t)
    \/ \E t \in Threads : CtwCall(t)
    \/ \E t \in Threads, ty \in Types : AllocFetchAdd(t, ty)
    \/ \E t \in Threads, v \in Values, g \in Garbage, a \in Addrs,
          o \in {"ok", "panic", "killed"} : AllocFinish(t, v, g, a, o)
    \/ \E t \in Threads : AllocNull(t)
    \/ \E t \in Threads : MinorHeapGenGc(t)
    \/ \E t \in Threads, a \in Cells, b \in Cells : CompareCells(t, a, b)
    \/ \E t \in Threads, c \in Cells : AsMutCall(t, c)
    \/ \E t \in Threads, p \in Cells, e \in Cells : HoldGCMut(t, p, e)
    \/ \E t \in Threads, v \in Values : DerefMutWrite(t, v)
    \/ \E t \in Threads : DropGCMut(t)

Spec == Init /\ [][Next]_vars

(***************************************************************************)
(* The stop-the-world flag alone: calls of stw() and ctw() from several    *)
(* threads.                                                                *)
(***************************************************************************)
StwNext ==
    \/ \E t \in Threads : StwBegin(t)
    \/ \E t \in Threads : StwCall(t)
    \/ \E t \in Threads : CtwBegin(t)
    \/ \E t \in Threads : CtwCall(t)

StwSpec == Init /\ [][StwNext]_vars

(***************************************************************************)
(* The byte counter and the frames' sets: allocation of every managed      *)
(* type from several threads.  The contents of the block and the stored    *)
(* value change neither the counter nor the sets, so one of each is taken. *)
(* No block is released here, so a new block is an address different from *)
(* those in use and nothing more can be told of it: the allocator is taken *)
(* to hand out the free block at the lowest address.                       *)
(***************************************************************************)
CounterNext ==
    \/ \E t \in Threads, ty \in Types : AllocFetchAdd(t, ty)
    \/ \E t \in Threads, o \in {"ok", "panic", "killed"} :
          FreeBlocks # {} /\ AllocFinish(t, 0, ZeroBlock, FirstFree, o)
    \/ \E t \in Threads : AllocNull(t)

CounterSpec == InitOneConfig /\ [][CounterNext]_vars

(***************************************************************************)
(* Allocation and the minor collection: objects of a plain type allocated  *)
(* in blocks with any prior contents (the free block at the lowest         *)
(* address, none being released), and calls of minor_heap_gen_gc.          *)
(***************************************************************************)
MinorNext ==
    \/ \E t \in Threads : AllocFetchAdd(t, 2)
    \/ \E t \in Threads, g \in Garbage :
          FreeBlocks # {} /\ AllocFinish(t, 0, g, FirstFree, "ok")
    \/ \E t \in Threads : AllocNull(t)
    \/ \E t \in Threads : MinorHeapGenGc(t)

MinorSpec == Init /\ [][MinorNext]_vars

(***************************************************************************)
(* Handles: objects of one plain type holding any value (in the free block *)
(* at the lowest address, none being released), and the comparison of      *)
(* their handles.                                                          *)
(***************************************************************************)
HandleNext ==
    \/ \E t \in Threads : AllocFetchAdd(t, 2)
    \/ \E t \in Threads, v \in Values :
          FreeBlocks # {} /\ AllocFinish(t, v, ZeroBlock, FirstFree, "ok")
    \/ \E t \in Threads : AllocNull(t)
    \/ \E t \in Threads, a \in Cells, b \in Cells : CompareCells(t, a, b)

HandleSpec == Init /\ [][HandleNext]_vars

(***************************************************************************)
(* Write guards: objects of one plain type, as_mut, and guards that are    *)
(* held, written through and dropped.                                      *)
(***************************************************************************)
GuardNext ==
    \/ \E t \in Threads : AllocFetchAdd(t, 2)
    \/ \E t \in Threads :
          FreeBlocks # {} /\ AllocFinish(t, 0, ZeroBlock, FirstFree, "ok")
    \/ \E t \in Threads : AllocNull(t)
    \/ \E t \in Threads, c \in Cells : AsMutCall(t, c)
    \/ \E t \in Threads, p \in Cells, e \in Cells : HoldGCMut(t, p, e)
    \/ \E t \in Threads, v \in Values : DerefMutWrite(t, v)
    \/ \E t \in Threads : DropGCMut(t)

GuardSpec == Init /\ [][GuardNext]_vars

(***************************************************************************)
(* Frames whose objects are reclaimed: allocation through several frames   *)
(* from an allocator that hands a released block out again, in any order.  *)
(***************************************************************************)
FrameNext ==
    \/ \E t \in Threads : AllocFetchAdd(t, 2)
    \/ \E t \in Threads, a \in Addrs : AllocFinish(t, 0, ZeroBlock, a, "ok")
    \/ \E t \in Threads : AllocNull(t)
    \/ \E a \in Addrs : Reclaim(a)

FrameSpec == InitOneConfig /\ [][FrameNext]_vars

(***************************************************************************)
(* The major cycle.  src/ declares GCStage and the major sets and          *)
(* documents the stages, and has no function that drives them: the steps   *)
(* below follow the stage comments of GCStage and the design of the major  *)
(* cycle (Ready -> ParallelScan -> FinalScan -> ConcurrentSweep -> Ready), *)
(* and call the stw() and ctw() of the code.                               *)
(***************************************************************************)
ZeroCount(f) == [x \in DOMAIN f |-> 0]

NextStageSkipSweep(s) ==
    CASE s = "Ready" -> "ParallelScan"
      [] s = "ParallelScan" -> "FinalScan"
      [] s = "FinalScan" -> "Ready"
      [] s = "ConcurrentSweep" -> "Ready"

\* The GCStage that follows s in a major cycle.
NextStage(s) ==
    CASE s = "Ready" -> "ParallelScan"
      [] s = "ParallelScan" -> "FinalScan"
      [] s = "FinalScan" -> "ConcurrentSweep"
      [] s = "ConcurrentSweep" -> "Ready"

\* Ready: stop the world and start the initial root scan; the marks of the
\* previous cycle are cleared.
MajorStart ==
    /\ ~crashed
    /\ major_stage = "Ready" /\ ~initial_scan
    /\ LET r == CompareExchange(stw, FALSE, TRUE) IN
        /\ stw' = r.val
        /\ initial_scan' = r.ok
        /\ last' = StwStep(Step("major_start",
                                IF r.ok THEN "ok" ELSE "panic", stw, 0, 0,
                                NullPtr, NullPtr))
        /\ IF r.ok
           THEN /\ heap' = [a \in DOMAIN heap |->
                              [heap[a] EXCEPT !.header.marked = FALSE]]
                /\ major_heap_marked' = {}
                /\ hist' = [StwHist(hist, TRUE) EXCEPT
                                !.lost = {},
                                !.queued = ZeroCount(hist.queued),
                                !.mutated = {}, !.retraced = {}]
           ELSE /\ hist' = StwHist(hist, FALSE)
                /\ UNCHANGED <<heap, major_heap_marked>>
    /\ UNCHANGED <<config, minor_heap_size, minor_heap_gen, minor_heap_dead,
                   major_heap_gen, major_heap_rescan_list, imm_gen,
                   registed_gc_objects, pc, local, crashed, major_stage>>

\* The initial root scan is finished: continue the world, the stage becomes
\* ParallelScan and the write barrier is set.
MajorParallelScan ==
    /\ ~crashed
    /\ initial_scan
    /\ LET r == CompareExchange(stw, TRUE, FALSE) IN
        /\ stw' = r.val
        /\ hist' = CtwHist(hist, r.ok)
        /\ last' = CtwStep(Step("major_parallel_scan",
                                IF r.ok THEN "ok" ELSE "panic", stw, 0, 0,
                                NullPtr, NullPtr))
    /\ initial_scan' = FALSE
    /\ major_stage' = NextStage(major_stage)
    /\ UNCHANGED <<config, minor_heap_size, sets, heap, registed_gc_objects,
                   pc, local, crashed>>

\* Whether a worker that finds the marked flag at `flag` wins the object:
\* the flag is checked and set in one compare_exchange(false, true).
MarkAlways(flag) == [ok |-> TRUE, val |-> TRUE]

TryMark(flag) == CompareExchange(flag, FALSE, TRUE)

\* A worker reaches object h during a scan and tries to mark it.
MarkTry(t, h) ==
    /\ Idle(t)
    /\ initial_scan \/ major_stage \in {"ParallelScan", "FinalScan"}
    /\ LET r == TryMark(heap[h].header.marked) IN
        /\ heap' = [heap EXCEPT ![h].header.marked = r.val]
        /\ local' = [local EXCEPT ![t] = [NoLocal EXCEPT !.h = h,
                                                        !.won = r.ok]]
    /\ pc' = [pc EXCEPT ![t] = "marking"]
    /\ hist' = [hist EXCEPT !.lost = IF TryMark(heap[h].header.marked).ok
                                      THEN @ ELSE @ \cup {h}]
    /\ last' = Step("mark", "ok", FALSE, 0, 0, NullPtr, NullPtr)
    /\ UNCHANGED <<config, stw, minor_heap_size, sets, registed_gc_objects,
                   crashed, major>>

\* The worker that won the object puts it in the marked set and queues it
\* for tracing; the one that lost drops it.
MarkPublish(t) ==
    /\ ~crashed
    /\ pc[t] = "marking"
    /\ LET h == local[t].h IN
        IF local[t].won
        THEN /\ major_heap_marked' = major_heap_marked \cup {h}
             /\ hist' = [hist EXCEPT !.queued[h] = @ + 1]
        ELSE UNCHANGED <<major_heap_marked, hist>>
    /\ pc' = [pc EXCEPT ![t] = "idle"]
    /\ local' = [local EXCEPT ![t] = NoLocal]
    /\ last' = Step("mark", "ok", FALSE, 0, 0, NullPtr, NullPtr)
    /\ UNCHANGED <<config, stw, minor_heap_size, minor_heap_gen,
                   minor_heap_dead, major_heap_gen, major_heap_rescan_list,
                   imm_gen, heap, registed_gc_objects, crashed, major>>

\* ParallelScan -> FinalScan: stop the world again, once the workers have
\* put down what they hold.
MajorFinalScan ==
    /\ ~crashed
    /\ major_stage = "ParallelScan"
    /\ \A t \in Threads : pc[t] # "marking"
    /\ LET r == CompareExchange(stw, FALSE, TRUE) IN
        /\ stw' = r.val
        /\ major_stage' = IF r.ok THEN NextStage(major_stage)
                                   ELSE major_stage
        /\ hist' = StwHist(hist, r.ok)
        /\ last' = StwStep(Step("major_final_scan",
                                IF r.ok THEN "ok" ELSE "panic", stw, 0, 0,
                                NullPtr, NullPtr))
    /\ UNCHANGED <<config, minor_heap_size, sets, heap, registed_gc_objects,
                   pc, local, crashed, initial_scan>>

\* FinalScan: re-trace the objects of the rescan list until the list is
\* empty, then continue the world; the stage becomes ConcurrentSweep.
MajorFinalScanDone ==
    /\ ~crashed
    /\ major_stage = "FinalScan"
    /\ \A t \in Threads : pc[t] # "marking"
    /\ major_heap_rescan_list' = {}
    /\ LET r == CompareExchange(stw, TRUE, FALSE) IN
        /\ stw' = r.val
        /\ hist' = [CtwHist(hist, r.ok) EXCEPT
                        !.retraced = @ \cup major_heap_rescan_list]
        /\ last' = CtwStep(Step("major_final_scan_done",
                                IF r.ok THEN "ok" ELSE "panic", stw, 0, 0,
                                NullPtr, NullPtr))
    /\ major_stage' = NextStage(major_stage)
    /\ UNCHANGED <<config, minor_heap_size, minor_heap_gen, minor_heap_dead,
                   major_heap_gen, major_heap_marked, imm_gen, heap,
                   registed_gc_objects, pc, local, crashed, initial_scan>>

\* The objects of the major live set that the scan left unmarked.
Unmarked == {h \in major_heap_gen : ~heap[h].header.marked}

\* ConcurrentSweep: the unmarked objects of the major live set are removed;
\* the stage is Ready again.
MajorSweep ==
    /\ ~crashed
    /\ major_stage = "ConcurrentSweep"
    /\ major_heap_gen' = major_heap_gen \ Unmarked
    /\ major_stage' = NextStage(major_stage)
    /\ last' = Step("major_sweep", "ok", FALSE, 0, 0, NullPtr, NullPtr)
    /\ UNCHANGED <<config, stw, minor_heap_size, minor_heap_gen,
                   minor_heap_dead, major_heap_marked,
                   major_heap_rescan_list, imm_gen, heap, registed_gc_objects,
                   pc, local, crashed, initial_scan, hist>>

(***************************************************************************)
(* The major cycle running beside the mutator: allocation and released     *)
(* write guards from several threads, the collector's stage steps and the  *)
(* workers' marking.                                                       *)
(***************************************************************************)
MajorNext ==
    \/ \E t \in Threads : AllocFetchAdd(t, 2)
    \/ \E t \in Threads :
          FreeBlocks # {} /\ AllocFinish(t, 0, ZeroBlock, FirstFree, "ok")
    \/ \E t \in Threads : AllocNull(t)
    \/ \E t \in Threads, c \in Cells : HoldGCMut(t, c, c)
    \/ \E t \in Threads : DerefMutWrite(t, 1)
    \/ \E t \in Threads : DropGCMut(t)
    \/ MajorStart
    \/ MajorParallelScan
    \/ \E t \in Threads, h \in DOMAIN heap : MarkTry(t, h)
    \/ \E t \in Threads : MarkPublish(t)
    \/ MajorFinalScan
    \/ MajorFinalScanDone
    \/ MajorSweep

MajorSpec == Init /\ [][MajorNext]_vars

(***************************************************************************)
(* Marking: the collector's stage steps and the workers' marking of the    *)
(* objects that thread 1 allocates.                                        *)
(***************************************************************************)
MarkNext ==
    \/ AllocFetchAdd(1, 2)
    \/ FreeBlocks # {} /\ AllocFinish(1, 0, ZeroBlock, FirstFree, "ok")
    \/ AllocNull(1)
    \/ MajorStart
    \/ MajorParallelScan
    \/ \E t \in Threads, h \in DOMAIN heap : MarkTry(t, h)
    \/ \E t \in Threads : MarkPublish(t)
    \/ MajorFinalScan
    \/ MajorFinalScanDone
    \/ MajorSweep

MarkSpec == Init /\ [][MarkNext]_vars

(***************************************************************************)
(* The major cycle under fair scheduling.  The collector takes its next    *)
(* stage step when it can; a worker that holds an object puts it down.     *)
(* The work of a scan is finite (an object is won once and traced once),   *)
(* so the workers run out of work again and again, and the steps that wait *)
(* for them to be done do get their turn.  The allocating thread is under  *)
(* no obligation to act.                                                   *)
(***************************************************************************)
WorkersDone == \A t \in Threads : pc[t] # "marking"

CycleFairness ==
    /\ WF_vars(MajorParallelScan)
    /\ SF_vars(MajorFinalScan)
    /\ SF_vars(MajorFinalScanDone)
    /\ WF_vars(MajorSweep)
    /\ \A t \in Threads : WF_vars(MarkPublish(t))
    /\ []<>WorkersDone

CycleSpec == Init /\ [][MarkNext]_vars /\ CycleFairness

(***************************************************************************)
(* Properties.                                                             *)
(***************************************************************************)
RECURSIVE SumOver(_, _)
\* The sum of f[x] for the x in S.
SumOver(f, S) ==
    IF S = {} THEN 0
    ELSE LET x == CHOOSE y \in S : TRUE IN f[x] + SumOver(f, S \ {x})

\* The bytes accounted to the allocations made or under way.
AllocatedBytes ==
    SumOver([a \in DOMAIN heap |-> LayoutSize(heap[a].header.type_id)],
            DOMAIN heap)
    + SumOver([t \in Threads |-> local[t].size],
              {t \in Threads : pc[t] = "allocating"})

\* C1: a stw() whose exchange finds the flag already true panics and a
\* ctw() whose exchange finds it false panics, each leaving the flag as it
\* was; a call made in turn succeeds and flips the flag.
C1_StwCtwInTurn ==
    /\ last.op = "stw" =>
          /\ stw = TRUE
          /\ last.outcome = (IF last.flag THEN "panic" ELSE "ok")
    /\ last.op = "ctw" =>
          /\ stw = FALSE
          /\ last.outcome = (IF last.flag THEN "ok" ELSE "panic")

\* A second stw() with no ctw() in between has just panicked.
C1_Witness == last.op = "stw" /\ last.flag /\ last.outcome = "panic"

\* C2: the fetch_add of an allocation of a block of S bytes leaves the
\* minor byte counter at its value before plus S, S being the layout size
\* of the allocated type; so the counter is always the sum of the sizes of
\* the allocations made or under way.
C2_CounterGrowsBySize ==
    /\ last.op = "fetch_add" => minor_heap_size = last.pre + last.size
    /\ (last.op = "allocate" /\ last.outcome = "ok") =>
          last.size = LayoutSize(heap[last.h].header.type_id)
    /\ minor_heap_size = AllocatedBytes

\* Two allocations of different sizes have completed.
C2_Witness ==
    /\ last.op = "allocate" /\ last.outcome = "ok"
    /\ Cardinality(DOMAIN heap) = 2
    /\ minor_heap_size = LayoutSize(1) + LayoutSize(2)
    /\ LayoutSize(1) # LayoutSize(2)

\* C3: an allocation that takes the minor byte counter above
\* minor_heap_size_limit is fatal and returns no handle; one that takes it
\* exactly to the limit succeeds.
C3_OomBoundary ==
    last.op = "allocate" =>
       /\ last.pre + last.size > config.minor_heap_size_limit =>
             last.outcome = "panic" /\ last.h = NullPtr
       /\ last.pre + last.size = config.minor_heap_size_limit =>
             last.outcome = "ok"

\* C4: the header of every handle allocate returns has generation Minor,
\* liveness 1 and marked false, whatever the block held before.
C4_FreshHeader ==
    (last.op = "allocate" /\ last.outcome = "ok") =>
       /\ heap[last.h].header.generation = "Minor"
       /\ heap[last.h].header.liveness = 1
       /\ heap[last.h].header.marked = FALSE

\* C5: when a GCMut is released while the major stage is ParallelScan, or
\* with a release-time handle different from the acquisition-time handle,
\* the object's header pointer is in the major rescan list.
C5_BarrierQueuesRescan ==
    (last.op = "drop_gcmut" /\ (last.flag \/ last.h # last.h2)) =>
       last.h \in major_heap_rescan_list

\* C7: right after a minor scan, an object that has survived exactly
\* major_heap_liveness scans is in the major live set and not in the minor
\* live set, and one that has survived one fewer is in the minor live set
\* and not in the major live set.
C7_PromotionThreshold ==
    last.op = "minor_heap_gen_gc" =>
       \A a \in DOMAIN heap :
          /\ hist.survived[a] = config.major_heap_liveness =>
                a \in major_heap_gen /\ a \notin minor_heap_gen
          /\ hist.survived[a] = config.major_heap_liveness - 1 =>
                a \in minor_heap_gen /\ a \notin major_heap_gen

\* C10: two handles compare equal exactly when they refer to the same
\* allocated block, whatever data the blocks hold.
C10_EqIsHeaderIdentity ==
    last.op = "eq" => (last.flag <=> last.h = last.h2)

\* Handles to two blocks that hold the same data have compared unequal.
C10_Witness ==
    /\ last.op = "eq"
    /\ last.h # last.h2
    /\ heap[last.h].data = heap[last.h2].data
    /\ ~last.flag

\* C6: when FinalScan ends the rescan list is empty and every object
\* that was mutated through the write barrier during ParallelScan has been
\* re-traced.
C6_FinalScanDrains ==
    last.op = "major_final_scan_done" =>
       /\ major_heap_rescan_list = {}
       /\ hist.mutated \subseteq hist.retraced

\* C9: however often the workers reach an object in one scan, it is in the
\* marked set and has been queued for tracing once, not more.
C9_MarkOnce ==
    \A h \in DOMAIN heap :
       /\ hist.queued[h] <= 1
       /\ hist.queued[h] = 1 =>
             h \in major_heap_marked /\ heap[h].header.marked
       /\ (h \in major_heap_marked) => hist.queued[h] = 1

\* Two workers have reached the same object in one scan, one has lost it
\* to the other, and both are done with it.
C9_Witness ==
    \E h \in DOMAIN heap :
       /\ h \in hist.lost
       /\ hist.queued[h] = 1
       /\ \A t \in Threads : pc[t] = "idle"

\* C11: an allocation whose block is at a pointer already in the frame's
\* owned-object set panics and returns no handle; one that returns a
\* handle found its pointer new to the frame's set and has put it there.
C11_CollisionIsFatal ==
    last.op = "allocate" =>
       /\ last.flag => (last.outcome = "panic" /\ last.h = NullPtr)
       /\ last.outcome = "ok" =>
             /\ ~last.flag
             /\ last.h \in registed_gc_objects[hist.owner[last.h]]

\* A frame has been handed the block of an object it allocated before, and
\* its allocation has panicked.
C11_Witness ==
    /\ last.op = "allocate"
    /\ last.flag
    /\ last.outcome = "panic"
    /\ \E f \in Frames : Cardinality(registed_gc_objects[f]) = 1

\* The live set of the State for each generation tag.
LiveSet(g) ==
    CASE g = "Minor" -> minor_heap_gen
      [] g = "Major" -> major_heap_gen
      [] g = "Immortal" -> imm_gen

\* The objects that have been allocated and not reclaimed.
LiveObjects == DOMAIN heap \ minor_heap_dead

\* C12: every live object pointer is in exactly one of the minor, major
\* and immortal live sets: never in two, never in none.
C12_ExactlyOneLiveSet ==
    \A a \in LiveObjects :
       Cardinality({g \in Generations : a \in LiveSet(g)}) = 1

\* C14: the header pointer of the handle a successful allocate returns is
\* in the minor live set of the State as well as in the owned-object set
\* of the frame.
C14_AllocRegistersMinor ==
    (last.op = "allocate" /\ last.outcome = "ok") =>
       /\ last.h \in registed_gc_objects[hist.owner[last.h]]
       /\ last.h \in minor_heap_gen

\* C13: after a minor collection every minor object that was unmarked is in
\* the minor dead set, every survivor has marked = false, and the minor
\* byte counter has dropped by the sum of the sizes of the reclaimed
\* objects.
C13_MinorSweep ==
    last.op = "minor_heap_gen_gc" =>
       /\ hist.unmarked \subseteq minor_heap_dead
       /\ \A a \in LiveObjects : ~heap[a].header.marked
       /\ minor_heap_size =
             last.pre - SumOver([a \in hist.unmarked |->
                                   LayoutSize(heap[a].header.type_id)],
                                hist.unmarked)

\* C16: the STW flag is true throughout the initial root scan and
\* throughout FinalScan and false in ParallelScan and in ConcurrentSweep,
\* and no step of the mutator (a step of an allocation, a write through a
\* write guard or its release) is taken while the flag is true.
C16_MutatorPausedInStw ==
    /\ (initial_scan \/ major_stage = "FinalScan") => stw
    /\ major_stage \in {"ParallelScan", "ConcurrentSweep"} => ~stw
    /\ last.op \in {"fetch_add", "allocate", "deref_mut", "drop_gcmut"} =>
          ~stw

\* The stage changes of a major cycle.
StageOrder ==
    {<<"Ready", "ParallelScan">>, <<"ParallelScan", "FinalScan">>,
     <<"FinalScan", "ConcurrentSweep">>, <<"ConcurrentSweep", "Ready">>}

\* A major cycle is under way: from the stop-the-world of its initial root
\* scan until the stage is Ready again.
InCycle == initial_scan \/ major_stage # "Ready"

\* C15: the major stage only changes along Ready -> ParallelScan ->
\* FinalScan -> ConcurrentSweep -> Ready, and a major cycle that has
\* started runs on until the stage is Ready again, as long as the process
\* is running.
C15_CycleRunsToCompletion ==
    /\ [][major_stage' # major_stage =>
             <<major_stage, major_stage'>> \in StageOrder]_vars
    /\ (InCycle /\ ~crashed) ~> (~InCycle \/ crashed)

\* A major cycle in which an object was marked has gone through its sweep
\* and the stage is Ready again.
C15_Witness ==
    /\ last.op = "major_sweep"
    /\ major_stage = "Ready"
    /\ major_heap_marked # {}

\* C17: whenever the allocations of all frames have completed (each has
\* returned its handle), however they were interleaved, the minor byte
\* counter is the sum of the sizes of the allocated objects, and every
\* object is in the owned-object set of the frame it was allocated through
\* and of no other.
C17_NoLostUpdate ==
    ((\A t \in Threads : pc[t] = "idle") /\ DOMAIN heap = hist.returned) =>
       /\ minor_heap_size =
             SumOver([a \in DOMAIN heap |->
                        LayoutSize(heap[a].header.type_id)], DOMAIN heap)
       /\ \A a \in DOMAIN heap, f \in Frames :
             a \in registed_gc_objects[f] <=> f = hist.owner[a]

\* Two frames have allocated objects of different sizes at the same time,
\* and both allocations have completed.
C17_Witness ==
    /\ \A t \in Threads : pc[t] = "idle"
    /\ DOMAIN heap = hist.returned
    /\ last.op = "allocate" /\ last.outcome = "ok"
    /\ hist.overlapped
    /\ \E a \in DOMAIN heap, b \in DOMAIN heap :
          /\ hist.owner[a] # hist.owner[b]
          /\ heap[a].header.type_id # heap[b].header.type_id

\* C19: of the stw() calls made while no ctw() comes between, one succeeds
\* and the others panic, so never do two callers hold the stop-the-world
\* window, the flag is true exactly while one holds it, and a stw() or
\* ctw() that panics leaves the flag as it found it.
C19_OneHolder ==
    /\ hist.holding <= 1
    /\ stw <=> hist.holding = 1
    /\ (last.op \in {"stw", "ctw"} /\ last.outcome = "panic") =>
          stw = last.flag

\* Two stw() calls were under way on a State whose flag was false: one
\* holds the window and the other, begun while the flag was false, has
\* panicked.
C19_Witness ==
    /\ last.op = "stw" /\ last.outcome = "panic"
    /\ ~last.began
    /\ hist.holding = 1
    /\ stw

\* C20: start_stw is invoked only by a stw() call that acquires the flag
\* and end_stw only by a ctw() call that releases it, so the callbacks
\* alternate: start_stw first, and never the same callback twice in a row.
C20_CallbacksBracketWindows ==
    /\ last.op \in {"stw", "ctw"} => last.outcome = "ok"
    /\ last.cb # "none" => last.cb # last.prev_cb
    /\ last.cb = "end_stw" => last.prev_cb = "start_stw"

====
